---- MODULE Spec2Model ----
(***************************************************************************)
(* Model of the wlr-screencopy capture client (src/src/main.rs).           *)
(*                                                                         *)
(* The client is one thread: main's loop calls blocking_dispatch while     *)
(* state.running holds; a dispatch call flushes the buffered requests,     *)
(* blocks until the socket holds events, reads them as one batch and runs  *)
(* the Dispatch handler of every event of the batch before it returns.     *)
(* The compositor is the environment: it sends events on the objects the   *)
(* client has created, as far as it has seen the creating requests.        *)
(*   Spec       any compositor: any event of any live object               *)
(*   SpecProto  a compositor that keeps to the protocols                   *)
(*   SpecE2E    the compositor of the end-to-end scenario, with fairness   *)
(*   SpecConv   save_image's pixel conversion on small regions             *)
(***************************************************************************)
EXTENDS Integers, Sequences, FiniteSets, TLC

\* ------------------------------------------------------------------ bounds
MaxEvents == 8           \* events an unscripted compositor sends in a run
MaxProtoEvents == 9      \* events a protocol-abiding compositor sends in a run
MaxWire == 2             \* events the socket holds unread
MaxPixels == 2           \* pixels of a converted test region

\* ------------------------------------------------------- program constants
init_w == 1920
init_h == 1080
BytesPerPixel == 4
AlphaOpaque == 255

None == 0                \* Option::None for the proxies, which are numbered from 1
NoMap == [file |-> None, len |-> 0]   \* Option::None for the mapping
overlay_cursor == 0      \* the first argument of capture_output

VARIABLES
    running,        \* State.running
    mmap,           \* State.mmap: NoMap or [file, len]
    buffer,         \* State.buffer: None or the number of the wl_buffer
    screencopy_man, \* State.screencopy_man: None or the number of the manager proxy
    pc,             \* main's position
    proxy,          \* the Frame whose Ready handler is running (None outside it)
    batch,          \* events read by the current blocking_dispatch, not yet handled
    wire,           \* events the compositor has sent, not yet read
    srv,            \* what the compositor has seen of the client's requests (at a flush)
    nOutputs,       \* wl_output proxies the client has bound
    nManagers,      \* manager proxies the client has bound
    pools,          \* the provisionings done: file length, pool size, buffer geometry
    frames,         \* the Frames minted, in order: requests and events of each
    sent,           \* events the compositor has sent: per kind, and per Frame
    missed,         \* outputs whose Done was handled with no manager bound
    doneBound,      \* Done events handled with a manager bound
    writes,         \* executions of state.running = false
    saves,          \* calls of save_image
    emitted,        \* images written by save_image
    conv_in,        \* a mapped region's bytes, for the conversion on its own
    conv_out        \* what the conversion made of them

vars == << running, mmap, buffer, screencopy_man, pc, proxy, batch, wire, srv,
           nOutputs, nManagers, pools, frames, sent, missed, doneBound,
           writes, saves, emitted, conv_in, conv_out >>

convVars == << conv_in, conv_out >>

\* ------------------------------------------------------------------ events
Ev(k, n, e, i) == [k |-> k, n |-> n, e |-> e, i |-> i]

Interfaces == {"wl_shm", "zwlr_screencopy_manager_v1", "wl_output", "wl_compositor"}
OutputEvs == {"done", "geometry"}
FrameEvs == {"buffer", "buffer_done", "ready", "failed"}

\* A Frame as the client and the compositor know it.
\*   out, man     the output captured and the manager proxy the request went to
\*   bd, ready    BufferDone and Ready events handled
\*   copies       the wl_buffer of every copy request issued on it
\*   copyFrom     the handlers that issued them
\*   destroys     destroy requests issued on it
\*   late         events of it handled after its first destroy
\*   lateReq      requests issued on it after its first destroy
\*   overlay      the overlay_cursor argument of the capture_output request
\*   skipped      BufferDone events handled with no buffer stored
NewFrame(o, m) ==
    [out |-> o, man |-> m, bd |-> 0, ready |-> 0, copies |-> << >>,
     copyFrom |-> {}, destroys |-> 0, late |-> 0, lateReq |-> 0,
     overlay |-> overlay_cursor, skipped |-> 0]

\* What the compositor has sent: the events of each kind, and the Frames that
\* were sent Ready before any copy request of theirs was seen; the scripted
\* compositor keeps the interfaces it announced, in order; the protocol-abiding
\* one keeps the singleton globals it announced, the Frames it sent BufferDone
\* and those it sent Ready or Failed.
NothingSent ==
    [reg |-> 0, out |-> 0, frame |-> 0, early |-> {}, order |-> << >>,
     once |-> {}, bd |-> {}, fin |-> {}]

\* The conversion has not run.
NotRun == [state |-> "none", data |-> << >>]

\* ----------------------------------------------------------- State::new
InitSession ==
    /\ running = TRUE
    /\ mmap = NoMap
    /\ buffer = None
    /\ screencopy_man = None
    /\ pc = "loop"
    /\ proxy = None
    /\ batch = << >>
    /\ wire = << >>
    /\ srv = [reg |-> FALSE, outs |-> 0, frames |-> 0, copied |-> {}]
    /\ nOutputs = 0
    /\ nManagers = 0
    /\ pools = << >>
    /\ frames = << >>
    /\ sent = NothingSent
    /\ missed = {}
    /\ doneBound = 0
    /\ writes = 0
    /\ saves = 0
    /\ emitted = 0

Init ==
    /\ InitSession
    /\ conv_in = << >>
    /\ conv_out = NotRun

\* ------------------------------------------------------------------- main
\* Requests are buffered by the proxies and reach the compositor when
\* blocking_dispatch flushes, before it blocks for events.
Flushed ==
    [reg |-> TRUE, outs |-> nOutputs, frames |-> Len(frames),
     copied |-> {f \in 1..Len(frames) : frames[f].copies # << >>}]

\* while state.running { queue.blocking_dispatch(..) }: the test, and the flush
\* that opens the dispatch call; Ok(()) when the flag is down.
LoopCheck ==
    /\ pc = "loop"
    /\ IF running
         THEN pc' = "read" /\ srv' = Flushed
         ELSE pc' = "exited" /\ UNCHANGED srv
    /\ UNCHANGED << running, mmap, buffer, screencopy_man, proxy, batch, wire,
                    nOutputs, nManagers, pools, frames, sent, missed, doneBound,
                    writes, saves, emitted >>
    /\ UNCHANGED convVars

\* blocking_dispatch blocks until the socket holds events and reads them all.
Read ==
    /\ pc = "read"
    /\ wire # << >>
    /\ batch' = wire
    /\ wire' = << >>
    /\ pc' = "dispatch"
    /\ UNCHANGED << running, mmap, buffer, screencopy_man, proxy, srv,
                    nOutputs, nManagers, pools, frames, sent, missed, doneBound,
                    writes, saves, emitted >>
    /\ UNCHANGED convVars

\* The event a handler is called with, and the return to the dispatch call,
\* which returns to the loop when the batch is exhausted.
Handling(k) == pc = "dispatch" /\ batch # << >> /\ Head(batch).k = k

\* A dispatch call that returns as soon as running is false.
HandledTestsRunning ==
    /\ batch' = Tail(batch)
    /\ pc' = IF Tail(batch) = << >> \/ ~running THEN "loop" ELSE "dispatch"

Handled ==
    /\ batch' = Tail(batch)
    /\ pc' = IF Tail(batch) = << >> THEN "loop" ELSE "dispatch"

\* ------------------------------------------------- buffer provisioning
I32Max == 2147483647

\* Whether the product of two non-negative i32 values is an i32.
FitsI32(a, b) == a = 0 \/ b <= I32Max \div a

\* A stride of three bytes per pixel.
StrideRgb(w) == w * 3

Stride(w) == w * BytesPerPixel
Size(stride, h) == stride * h

\* tempfile + set_len(size as u64) + create_pool(fd, size) + create_buffer(0,
\* w, h, stride, Xrgb8888): the file length, the pool size and the buffer's
\* geometry. size is not negative, so the cast keeps it.
Provision(w, h) ==
    LET stride == Stride(w)
        size == Size(stride, h)
    IN  [file_len |-> size, pool_size |-> size, offset |-> 0,
         width |-> w, height |-> h, stride |-> stride]


\* A provisioning that stores the buffer and no mapping.
MapMutNotStored(file, file_len) == NoMap

\* MmapOptions::new().map_mut(&file) maps the whole file.
MapMut(file, file_len) == [file |-> file, len |-> file_len]

\* ------------------------------------------- Dispatch<WlRegistry, ()>
\* "wl_shm": bind, provision, store the buffer and then the mapping. A size
\* that overflows the i32 stops the handler.
BindShm ==
    /\ Handling("registry")
    /\ Head(batch).e = "global" /\ Head(batch).i = "wl_shm"
    /\ IF FitsI32(init_w, BytesPerPixel) /\ FitsI32(Stride(init_w), init_h)
         THEN /\ pools' = Append(pools, Provision(init_w, init_h))
              /\ buffer' = Len(pools')
              /\ mmap' = MapMut(Len(pools'), pools'[Len(pools')].file_len)
              /\ Handled
         ELSE /\ pc' = "panic"
              /\ UNCHANGED << pools, buffer, mmap, batch >>
    /\ UNCHANGED << running, screencopy_man, proxy, wire, srv, nOutputs,
                    nManagers, frames, sent, missed, doneBound, writes, saves,
                    emitted >>
    /\ UNCHANGED convVars


\* A manager binding that replays the captures of the outputs whose Done came
\* before it.
RECURSIVE Replay(_, _)
Replay(outs, man) ==
    IF outs = {}
      THEN frames
      ELSE LET o == CHOOSE x \in outs : TRUE
           IN  Append(Replay(outs \ {o}, man), NewFrame(o, man))

BindManagerReplays ==
    /\ Handling("registry")
    /\ Head(batch).e = "global" /\ Head(batch).i = "zwlr_screencopy_manager_v1"
    /\ nManagers' = nManagers + 1
    /\ screencopy_man' = nManagers'
    /\ frames' = Replay(missed, nManagers')
    /\ Handled
    /\ UNCHANGED << running, mmap, buffer, proxy, wire, srv, nOutputs, pools,
                    sent, missed, doneBound, writes, saves, emitted >>
    /\ UNCHANGED convVars

\* "zwlr_screencopy_manager_v1": bind and store the manager proxy.
BindManager ==
    /\ Handling("registry")
    /\ Head(batch).e = "global" /\ Head(batch).i = "zwlr_screencopy_manager_v1"
    /\ nManagers' = nManagers + 1
    /\ screencopy_man' = nManagers'
    /\ Handled
    /\ UNCHANGED << running, mmap, buffer, proxy, wire, srv, nOutputs, pools,
                    frames, sent, missed, doneBound, writes, saves, emitted >>
    /\ UNCHANGED convVars


\* An output binding that captures the output at once when a manager is bound.
BindOutputCaptures ==
    /\ Handling("registry")
    /\ Head(batch).e = "global" /\ Head(batch).i = "wl_output"
    /\ nOutputs' = nOutputs + 1
    /\ frames' = IF screencopy_man = None
                   THEN frames
                   ELSE Append(frames, NewFrame(nOutputs', screencopy_man))
    /\ Handled
    /\ UNCHANGED << running, mmap, buffer, screencopy_man, proxy, wire, srv,
                    nManagers, pools, sent, missed, doneBound, writes, saves,
                    emitted >>
    /\ UNCHANGED convVars

\* "wl_output": bind; the proxy is dropped, the object lives on.
BindOutput ==
    /\ Handling("registry")
    /\ Head(batch).e = "global" /\ Head(batch).i = "wl_output"
    /\ nOutputs' = nOutputs + 1
    /\ Handled
    /\ UNCHANGED << running, mmap, buffer, screencopy_man, proxy, wire, srv,
                    nManagers, pools, frames, sent, missed, doneBound, writes,
                    saves, emitted >>
    /\ UNCHANGED convVars

\* Any other interface (_ => {}), and any registry event that is not Global.
IgnoreRegistry ==
    /\ Handling("registry")
    /\ \/ Head(batch).e # "global"
       \/ Head(batch).i \notin {"wl_shm", "zwlr_screencopy_manager_v1", "wl_output"}
    /\ Handled
    /\ UNCHANGED << running, mmap, buffer, screencopy_man, proxy, wire, srv,
                    nOutputs, nManagers, pools, frames, sent, missed, doneBound,
                    writes, saves, emitted >>
    /\ UNCHANGED convVars


\* A capture that issues the copy at once, without waiting for BufferDone.
CaptureAndCopy(o, man) ==
    Append(frames, [NewFrame(o, man) EXCEPT !.copies = << buffer >>,
                                            !.copyFrom = {"done"}])

\* ---------------------------------------------- Dispatch<WlOutput, ()>
\* man.capture_output(0, output, qh, ()): mints a Frame for the output.
CaptureOutput(o, man) == Append(frames, NewFrame(o, man))

\* Done: capture the output when a manager is bound, else return.
OutputDone ==
    /\ Handling("output")
    /\ Head(batch).e = "done"
    /\ IF screencopy_man = None
         THEN /\ missed' = missed \cup {Head(batch).n}
              /\ UNCHANGED << frames, doneBound >>
         ELSE /\ frames' = CaptureOutput(Head(batch).n, screencopy_man)
              /\ doneBound' = doneBound + 1
              /\ UNCHANGED missed
    /\ Handled
    /\ UNCHANGED << running, mmap, buffer, screencopy_man, proxy, wire, srv,
                    nOutputs, nManagers, pools, sent, writes, saves, emitted >>
    /\ UNCHANGED convVars

\* Every other output event.
OutputOther ==
    /\ Handling("output")
    /\ Head(batch).e # "done"
    /\ Handled
    /\ UNCHANGED << running, mmap, buffer, screencopy_man, proxy, wire, srv,
                    nOutputs, nManagers, pools, frames, sent, missed, doneBound,
                    writes, saves, emitted >>
    /\ UNCHANGED convVars

\* ------------------------------------------------- pixel conversion
\* s.chunks(4): the slices of four bytes, the last one the remainder.
RECURSIVE Chunks(_)
Chunks(s) ==
    IF s = << >>
      THEN << >>
      ELSE LET n == IF Len(s) < BytesPerPixel THEN Len(s) ELSE BytesPerPixel
           IN  << SubSeq(s, 1, n) >> \o Chunks(SubSeq(s, n + 1, Len(s)))


\* A remap that keeps the channel order.
RemapKeepsOrder(chunk) == << chunk[1], chunk[2], chunk[3], AlphaOpaque >>

\* vec![chunk[2], chunk[1], chunk[0], 0xFF], the indices counted from 1 here.
Remap(chunk) == << chunk[3], chunk[2], chunk[1], AlphaOpaque >>

RECURSIVE FlatMap(_)
FlatMap(cs) == IF cs = << >> THEN << >> ELSE Remap(Head(cs)) \o FlatMap(Tail(cs))

\* mmap[..].chunks(4).flat_map(..).collect(): the bytes, or a panic on a chunk
\* with no chunk[2].
ConvertPixels(s) ==
    LET cs == Chunks(s)
    IN  IF \E k \in 1..Len(cs) : Len(cs[k]) < 3
          THEN [state |-> "panic", data |-> << >>]
          ELSE [state |-> "done", data |-> FlatMap(cs)]

\* ------------------------------------------------- State::save_image
save_w == 1920
save_h == 1080

\* mmap[..].chunks(4): the chunks of n bytes, the last one the remainder.
ChunkCount(n) == (n + BytesPerPixel - 1) \div BytesPerPixel
LastChunkLen(n) == n - BytesPerPixel * (ChunkCount(n) - 1)
\* chunk[2] is out of bounds in a last chunk of one or two bytes.
ChunkIndexPanics(n) == n > 0 /\ LastChunkLen(n) < 3
\* Four bytes per chunk are collected.
RgbaLen(n) == 4 * ChunkCount(n)
\* ImageBuffer::from_raw(width, height, data) is Some when data holds the image.
FromRawFits(w, h, len) == w * h * 4 <= len

\* save_image on the current mapping: nothing without a mapping, a panic on a
\* short chunk or a short buffer, else one image written.
SaveImage ==
    IF mmap = NoMap
      THEN /\ emitted' = emitted
           /\ Handled
      ELSE IF ChunkIndexPanics(mmap.len) \/ ~FromRawFits(save_w, save_h, RgbaLen(mmap.len))
      THEN /\ emitted' = emitted
           /\ pc' = "panic"
           /\ UNCHANGED batch
      ELSE /\ emitted' = emitted + 1
           /\ Handled

\* --------------------------------- Dispatch<ZwlrScreencopyFrameV1, ()>
\* 1 when Frame f was destroyed before, else 0.
Late(f) == IF frames[f].destroys > 0 THEN 1 ELSE 0

\* An event of Frame f is handled: fr is the Frames, c the counter of the event.
SeenBufferDone(f) == [frames EXCEPT ![f].bd = @ + 1, ![f].late = @ + Late(f)]
SeenReady(f) == [frames EXCEPT ![f].ready = @ + 1, ![f].late = @ + Late(f)]
SeenOther(f) == [frames EXCEPT ![f].late = @ + Late(f)]

\* A BufferDone handler that issues the copy without a buffer.
NoCopyNullBuffer(fr, f) ==
    [fr EXCEPT ![f].skipped = @ + 1, ![f].copies = Append(@, None)]

\* if let Some(buf) = state.buffer.clone() did not match: nothing is done.
NoCopy(fr, f) == [fr EXCEPT ![f].skipped = @ + 1]


\* A BufferDone handler that issues no copy.
CopyDropped(fr, f, buf, e) == fr

\* proxy.copy(&buf), issued on Frame f by the handler of event e.
Copy(fr, f, buf, e) ==
    [fr EXCEPT ![f].copies = Append(@, buf),
               ![f].copyFrom = @ \cup {e},
               ![f].lateReq = @ + Late(f)]


\* A Ready handler that leaves the Frame alive.
DestroyForgotten(fr, f) == fr

\* proxy.destroy() on Frame f.
Destroy(fr, f) ==
    [fr EXCEPT ![f].destroys = @ + 1,
               ![f].lateReq = @ + Late(f)]

\* BufferDone: copy into the stored buffer, if there is one.
FrameBufferDone ==
    /\ Handling("frame")
    /\ Head(batch).e = "buffer_done"
    /\ LET f == Head(batch).n
       IN  frames' = IF buffer # None
                       THEN Copy(SeenBufferDone(f), f, buffer, "buffer_done")
                       ELSE NoCopy(SeenBufferDone(f), f)
    /\ Handled
    /\ UNCHANGED << running, mmap, buffer, screencopy_man, proxy, wire, srv,
                    nOutputs, nManagers, pools, sent, missed, doneBound, writes,
                    saves, emitted >>
    /\ UNCHANGED convVars

\* Ready, first statement: proxy.destroy().
FrameReadyDestroy ==
    /\ Handling("frame")
    /\ Head(batch).e = "ready"
    /\ frames' = Destroy(SeenReady(Head(batch).n), Head(batch).n)
    /\ proxy' = Head(batch).n
    /\ pc' = "ready_flag"
    /\ UNCHANGED << running, mmap, buffer, screencopy_man, batch, wire, srv,
                    nOutputs, nManagers, pools, sent, missed, doneBound, writes,
                    saves, emitted >>
    /\ UNCHANGED convVars

\* Ready, second statement: state.running = false.
FrameReadySetRunning ==
    /\ pc = "ready_flag"
    /\ running' = FALSE
    /\ writes' = writes + 1
    /\ pc' = "ready_save"
    /\ UNCHANGED << mmap, buffer, screencopy_man, proxy, batch, wire, srv,
                    nOutputs, nManagers, pools, frames, sent, missed, doneBound,
                    saves, emitted >>
    /\ UNCHANGED convVars

\* Ready, third statement: state.save_image(); the handler returns.
FrameReadySave ==
    /\ pc = "ready_save"
    /\ saves' = saves + 1
    /\ SaveImage
    /\ proxy' = None
    /\ UNCHANGED << running, mmap, buffer, screencopy_man, wire, srv,
                    nOutputs, nManagers, pools, frames, sent, missed, doneBound,
                    writes >>
    /\ UNCHANGED convVars


\* A handler that ends the session on any other Frame event, such as Failed.
FrameOtherStops ==
    /\ Handling("frame")
    /\ Head(batch).e \notin {"buffer_done", "ready"}
    /\ frames' = SeenOther(Head(batch).n)
    /\ running' = FALSE
    /\ Handled
    /\ UNCHANGED << mmap, buffer, screencopy_man, proxy, wire, srv,
                    nOutputs, nManagers, pools, sent, missed, doneBound, writes,
                    saves, emitted >>
    /\ UNCHANGED convVars


\* A handler that destroys the Frame on any other Frame event, such as Failed.
FrameOtherDestroys ==
    /\ Handling("frame")
    /\ Head(batch).e \notin {"buffer_done", "ready"}
    /\ frames' = Destroy(SeenOther(Head(batch).n), Head(batch).n)
    /\ Handled
    /\ UNCHANGED << running, mmap, buffer, screencopy_man, proxy, wire, srv,
                    nOutputs, nManagers, pools, sent, missed, doneBound, writes,
                    saves, emitted >>
    /\ UNCHANGED convVars

\* Every other Frame event.
FrameOther ==
    /\ Handling("frame")
    /\ Head(batch).e \notin {"buffer_done", "ready"}
    /\ frames' = SeenOther(Head(batch).n)
    /\ Handled
    /\ UNCHANGED << running, mmap, buffer, screencopy_man, proxy, wire, srv,
                    nOutputs, nManagers, pools, sent, missed, doneBound, writes,
                    saves, emitted >>
    /\ UNCHANGED convVars

\* ------------------------------------------------------------- compositor
\* The compositor writes an event to the socket. The client reads the socket
\* only in blocking_dispatch, after its flush, and a handler neither reads nor
\* flushes: an event written while handlers run is read by the next dispatch
\* call, as if written while the client blocks in that call. Only those writes
\* are kept.
Send(ev) ==
    /\ pc = "read"
    /\ Len(wire) < MaxWire
    /\ wire' = Append(wire, ev)
    /\ UNCHANGED << running, mmap, buffer, screencopy_man, pc, proxy, batch,
                    srv, nOutputs, nManagers, pools, frames, missed, doneBound,
                    writes, saves, emitted >>
    /\ UNCHANGED convVars

SendRegistry(e, i) ==
    /\ srv.reg
    /\ Send(Ev("registry", 0, e, i))

SendOutput(o, e) ==
    /\ o \in 1..srv.outs
    /\ Send(Ev("output", o, e, ""))

SendFrame(f, e) ==
    /\ f \in 1..srv.frames
    /\ Send(Ev("frame", f, e, ""))

\* Any compositor: any registry event once the registry exists, any event of
\* a bound output, any event of a minted Frame, in any order and number.
NumSent == sent.reg + sent.out + sent.frame

AnyRegistry ==
    /\ NumSent < MaxEvents
    /\ \/ \E i \in Interfaces : SendRegistry("global", i)
       \/ SendRegistry("global_remove", "")
    /\ sent' = [sent EXCEPT !.reg = @ + 1]

AnyOutput ==
    /\ NumSent < MaxEvents
    /\ \E o \in 1..srv.outs, e \in OutputEvs : SendOutput(o, e)
    /\ sent' = [sent EXCEPT !.out = @ + 1]

AnyFrame ==
    /\ NumSent < MaxEvents
    /\ \E f \in 1..srv.frames, e \in FrameEvs \ {"buffer"} :
          /\ SendFrame(f, e)
          /\ sent' = [sent EXCEPT !.frame = @ + 1,
                                  !.early = IF e = "ready" /\ f \notin srv.copied
                                              THEN @ \cup {f} ELSE @]

\* ---------------------------------------------------------- specification
Client ==
    \/ LoopCheck
    \/ Read
    \/ BindShm
    \/ BindManager
    \/ BindOutput
    \/ IgnoreRegistry
    \/ OutputDone
    \/ OutputOther
    \/ FrameBufferDone
    \/ FrameReadyDestroy
    \/ FrameReadySetRunning
    \/ FrameReadySave
    \/ FrameOther

Compositor ==
    \/ AnyRegistry
    \/ AnyOutput
    \/ AnyFrame

Next == Client \/ Compositor

Spec == Init /\ [][Next]_vars

\* ------------------------------------------------- scripted compositor
\* The end-to-end scenario's compositor: it announces every global once, in
\* any order, and once the three the client needs are announced it completes
\* the output's configuration once (geometry, done), describes the Frame's
\* buffer (buffer, buffer_done) and, having seen the copy request, sends ready.
Required == {"wl_shm", "zwlr_screencopy_manager_v1", "wl_output"}
Range(q) == {q[k] : k \in 1..Len(q)}

ScriptAnnounce ==
    \E i \in Interfaces \ Range(sent.order) :
        /\ SendRegistry("global", i)
        /\ sent' = [sent EXCEPT !.reg = @ + 1, !.order = Append(@, i)]

ScriptGeometry ==
    /\ Required \subseteq Range(sent.order)
    /\ sent.out = 0
    /\ SendOutput(1, "geometry")
    /\ sent' = [sent EXCEPT !.out = @ + 1]

ScriptDone ==
    /\ sent.out = 1
    /\ SendOutput(1, "done")
    /\ sent' = [sent EXCEPT !.out = @ + 1]

ScriptBuffer ==
    /\ sent.frame = 0
    /\ SendFrame(1, "buffer")
    /\ sent' = [sent EXCEPT !.frame = @ + 1]

ScriptBufferDone ==
    /\ sent.frame = 1
    /\ SendFrame(1, "buffer_done")
    /\ sent' = [sent EXCEPT !.frame = @ + 1]

ScriptReady ==
    /\ sent.frame = 2
    /\ 1 \in srv.copied
    /\ SendFrame(1, "ready")
    /\ sent' = [sent EXCEPT !.frame = @ + 1]

Scripted ==
    \/ ScriptAnnounce
    \/ ScriptGeometry
    \/ ScriptDone
    \/ ScriptBuffer
    \/ ScriptBufferDone
    \/ ScriptReady

NextE2E == Client \/ Scripted

\* The client runs on while it can, and the scripted compositor sends what
\* its script has left.
SpecE2E == Init /\ [][NextE2E]_vars /\ WF_vars(Client) /\ WF_vars(Scripted)

\* ------------------------------------------- protocol-abiding compositor
\* A compositor that keeps to the protocols: it announces wl_shm, the manager
\* and any other singleton once and any number of outputs; an output sends its
\* events, Done included, any number of times (Done follows every change of
\* its properties); a Frame is sent BufferDone once and then, once its copy
\* request was seen, Ready, or Failed at any time, and nothing after these.
ProtoRegistry ==
    /\ NumSent < MaxProtoEvents
    /\ \E i \in Interfaces \ sent.once :
          /\ SendRegistry("global", i)
          /\ sent' = [sent EXCEPT !.reg = @ + 1,
                                  !.once = IF i = "wl_output" THEN @ ELSE @ \cup {i}]

ProtoOutput ==
    /\ NumSent < MaxProtoEvents
    /\ \E o \in 1..srv.outs, e \in OutputEvs : SendOutput(o, e)
    /\ sent' = [sent EXCEPT !.out = @ + 1]

ProtoBufferDone ==
    /\ NumSent < MaxProtoEvents
    /\ \E f \in (1..srv.frames) \ (sent.bd \cup sent.fin) :
          /\ SendFrame(f, "buffer_done")
          /\ sent' = [sent EXCEPT !.frame = @ + 1, !.bd = @ \cup {f}]

ProtoReady ==
    /\ NumSent < MaxProtoEvents
    /\ \E f \in (sent.bd \cap srv.copied) \ sent.fin :
          /\ SendFrame(f, "ready")
          /\ sent' = [sent EXCEPT !.frame = @ + 1, !.fin = @ \cup {f}]

ProtoFailed ==
    /\ NumSent < MaxProtoEvents
    /\ \E f \in (1..srv.frames) \ sent.fin :
          /\ SendFrame(f, "failed")
          /\ sent' = [sent EXCEPT !.frame = @ + 1, !.fin = @ \cup {f}]

Protocol ==
    \/ ProtoRegistry
    \/ ProtoOutput
    \/ ProtoBufferDone
    \/ ProtoReady
    \/ ProtoFailed

NextProto == Client \/ Protocol

SpecProto == Init /\ [][NextProto]_vars

\* --------------------------------------------- the conversion on its own
PixelBytes == {0, 10, 255}
KnownInput == << 10, 20, 30, 0,  255, 0, 0, 0,  0, 255, 0, 0,  0, 0, 255, 0 >>
KnownOutput == << 30, 20, 10, 255,  0, 0, 255, 255,  0, 255, 0, 255,  255, 0, 0, 255 >>
ConvInputs ==
    UNION {[1..n -> PixelBytes] : n \in 0..(BytesPerPixel * MaxPixels)} \cup {KnownInput}

InitConv ==
    /\ InitSession
    /\ conv_in \in ConvInputs
    /\ conv_out = NotRun

ConvertRegion ==
    /\ conv_out.state = "none"
    /\ conv_out' = ConvertPixels(conv_in)
    /\ UNCHANGED << running, mmap, buffer, screencopy_man, pc, proxy, batch,
                    wire, srv, nOutputs, nManagers, pools, frames, sent, missed,
                    doneBound, writes, saves, emitted, conv_in >>

NextConv == ConvertRegion

SpecConv == InitConv /\ [][NextConv]_vars

\* ------------------------------------------------------------- properties
Frames == 1..Len(frames)
Destroyed(f) == frames[f].destroys > 0

RECURSIVE SumDestroys(_)
SumDestroys(n) == IF n = 0 THEN 0 ELSE frames[n].destroys + SumDestroys(n - 1)

\* C1: with the scripted compositor (the three globals announced in any of
\* their orders, then the output's Done once, then BufferDone and, after the
\* copy, Ready on the minted Frame) every run ends with the loop exited,
\* running false and the image converted and emitted exactly once.
C1_EndToEndSuccess ==
    <>[](pc = "exited" /\ running = FALSE /\ saves = 1 /\ emitted = 1)

C1_Witness ==
    /\ pc = "exited"
    /\ emitted = 1
    /\ sent.order = << "wl_output", "zwlr_screencopy_manager_v1", "wl_shm" >>

\* C2: a copy request exists on a Frame only when a BufferDone event of that
\* Frame was handled before, one copy at most per such event, and no handler
\* but the BufferDone handler issued it.
C2_CopyOnlyAfterBufferDone ==
    \A f \in Frames :
        /\ frames[f].copies # << >> => frames[f].bd > 0
        /\ Len(frames[f].copies) <= frames[f].bd
        /\ frames[f].copyFrom \subseteq {"buffer_done"}

C2_Witness == \E f \in Frames : frames[f].copies # << >> /\ frames[f].bd > 0

\* C3: running is false only after a Ready event of some Frame was handled,
\* and the step that lowers it is the Ready handler's assignment.
C3_RunningFalseOnlyAfterReady ==
    /\ [](running = FALSE => \E f \in Frames : frames[f].ready > 0)
    /\ [][running /\ ~running' =>
            pc = "ready_flag" /\ proxy \in Frames /\ frames[proxy].ready > 0]_vars

C3_Witness == running = FALSE /\ \E f \in Frames : frames[f].bd > 0 /\ frames[f].ready > 0

\* C4, as claimed: once a Done event was handled with no manager bound, no
\* capture_output is issued in the rest of the run, no Frame is minted and
\* running stays true.
C4_Original == missed # {} => frames = << >> /\ running = TRUE

\* C4, amended: a Done event handled with no manager bound issues no capture
\* and schedules none, so binding the manager later issues none either: as
\* long as no Done event is handled with the manager bound, no Frame is
\* minted and running stays true.
C4_NoRetryAfterMissedDone ==
    (missed # {} /\ doneBound = 0) => frames = << >> /\ running = TRUE

C4_Witness ==
    /\ missed # {}
    /\ doneBound = 0
    /\ screencopy_man # None
    /\ pc = "read"

\* C5, as claimed: once a Frame is destroyed, no event of it is handled and no
\* request is issued on it.
C5_Original == \A f \in Frames : frames[f].late = 0 /\ frames[f].lateReq = 0

\* C6, as claimed: state.running = false is executed at most once in a run,
\* also when several Frames reach Ready.
C6_Original == writes <= 1

\* C7, as claimed: at most one Frame is minted for an output.
C7_Original ==
    \A o \in 1..nOutputs : Cardinality({f \in Frames : frames[f].out = o}) <= 1

\* C8: the conversion of a region of whole pixels keeps the length and the
\* pixel order and maps every pixel (b, g, r, x) to (r, g, b, 0xFF); the
\* known four pixels give the known output.
C8_PixelRemap ==
    (conv_out.state # "none" /\ Len(conv_in) % 4 = 0) =>
        /\ conv_out.state = "done"
        /\ Len(conv_out.data) = Len(conv_in)
        /\ \A p \in 0..(Len(conv_in) \div 4 - 1) :
              /\ conv_out.data[4 * p + 1] = conv_in[4 * p + 3]
              /\ conv_out.data[4 * p + 2] = conv_in[4 * p + 2]
              /\ conv_out.data[4 * p + 3] = conv_in[4 * p + 1]
              /\ conv_out.data[4 * p + 4] = 255
        /\ conv_in = KnownInput => conv_out.data = KnownOutput

C8_Witness == conv_in = KnownInput /\ conv_out.state = "done"

\* C9: every provisioning has stride = width * 4 = 7680 and size = stride *
\* height = 8294400, an i32; the file length, the pool size, the mapping's
\* length and the extent of the buffer at offset 0 all equal that size, and
\* the stored buffer is the one of the stored mapping's file.
C9_ProvisioningArithmetic ==
    /\ pc # "panic"
    /\ \A k \in 1..Len(pools) :
          /\ pools[k].width = 1920 /\ pools[k].height = 1080
          /\ pools[k].stride = pools[k].width * 4
          /\ pools[k].stride = 7680
          /\ pools[k].pool_size = pools[k].stride * pools[k].height
          /\ pools[k].pool_size = 8294400
          /\ pools[k].pool_size <= I32Max
          /\ pools[k].file_len = pools[k].pool_size
          /\ pools[k].offset = 0
    /\ mmap # NoMap =>
          /\ mmap.file \in 1..Len(pools)
          /\ mmap.len = pools[mmap.file].pool_size
          /\ mmap.len = pools[mmap.file].offset
                          + pools[mmap.file].stride * pools[mmap.file].height
          /\ buffer = mmap.file

C9_Witness == mmap # NoMap /\ buffer # None /\ Len(pools) = 2

\* C10: in the Ready handler the Frame is destroyed first, running is lowered
\* second and the image is converted and emitted third: when the emit step
\* starts, the Frame of this event is destroyed and running is false, both
\* by this invocation.
C10_ReadyOrder ==
    /\ pc = "ready_flag" =>
          /\ proxy \in Frames /\ Destroyed(proxy)
          /\ SumDestroys(Len(frames)) = writes + 1
          /\ writes = saves
    /\ pc = "ready_save" =>
          /\ proxy \in Frames /\ Destroyed(proxy)
          /\ running = FALSE
          /\ SumDestroys(Len(frames)) = writes
          /\ writes = saves + 1
    /\ pc \notin {"ready_flag", "ready_save"} =>
          /\ proxy = None
          /\ SumDestroys(Len(frames)) = writes
          /\ writes = saves

C10_Witness == pc = "ready_save" /\ mmap # NoMap /\ frames[proxy].copies # << >>

\* C11: a capture_output request is issued only by the handler of an
\* output's Done event with a manager bound, and every such handler issues
\* exactly one, for the output of the event, on the bound manager, with first
\* argument 0; the handlers that bind the output global or the manager global
\* and the handlers of the other output events issue none, and no handler of
\* these changes running, the mapping or the buffer.
C11_CaptureOnlyOnBoundDone ==
    [][ /\ Len(frames') # Len(frames) =>
              /\ Handling("output") /\ Head(batch).e = "done"
              /\ screencopy_man # None
        /\ (Handling("output") /\ Head(batch).e = "done" /\ screencopy_man # None) =>
              /\ Len(frames') = Len(frames) + 1
              /\ SubSeq(frames', 1, Len(frames)) = frames
              /\ frames'[Len(frames')].out = Head(batch).n
              /\ frames'[Len(frames')].man = screencopy_man
              /\ frames'[Len(frames')].overlay = 0
              /\ frames'[Len(frames')].copies = << >>
        /\ (\/ Handling("output")
            \/ /\ Handling("registry")
               /\ Head(batch).i \in {"wl_output", "zwlr_screencopy_manager_v1"}) =>
              UNCHANGED << running, mmap, buffer >>
      ]_vars

C11_Witness ==
    /\ missed # {}
    /\ nOutputs >= 2
    /\ \E f \in Frames : frames[f].out \notin missed /\ frames[f].overlay = 0
    /\ Len(frames) = doneBound

\* C12, as claimed: a Frame whose BufferDone event was handled with no buffer
\* stored has no copy request and no Ready event in the rest of the run, and
\* running stays true.
C12_Original ==
    \A f \in Frames :
        frames[f].skipped > 0 =>
            /\ frames[f].copies = << >>
            /\ frames[f].ready = 0
            /\ running = TRUE

\* C12, amended: the handler of a BufferDone event that finds no buffer
\* stored issues no request, raises no error and changes no Session field;
\* with a compositor that keeps to the protocol that Frame has no copy
\* request and no Ready event in the rest of the run, also after wl_shm is
\* bound, and running is true as long as no other Frame was sent Ready.
C12_SkippedCopyNeverIssued ==
    /\ [](\A f \in Frames :
            frames[f].skipped > 0 =>
                /\ frames[f].copies = << >>
                /\ frames[f].ready = 0
                /\ f \notin srv.copied
                /\ (\A g \in Frames \ {f} : frames[g].ready = 0) => running = TRUE)
    /\ [][(Handling("frame") /\ Head(batch).e = "buffer_done" /\ buffer = None) =>
            /\ UNCHANGED << running, mmap, buffer, screencopy_man >>
            /\ pc' # "panic"
            /\ Len(frames') = Len(frames)
            /\ \A f \in Frames :
                  /\ frames'[f].copies = frames[f].copies
                  /\ frames'[f].destroys = frames[f].destroys
          ]_vars

C12_Witness ==
    /\ \E f \in Frames :
          /\ frames[f].skipped > 0
          /\ frames[f].copies = << >>
          /\ f \in sent.bd
    /\ buffer # None
    /\ running = FALSE

\* An event e of Frame f is written or read and not yet handled.
Pending(f, e) ==
    \/ \E k \in 1..Len(wire) : wire[k] = Ev("frame", f, e, "")
    \/ \E k \in 1..Len(batch) : batch[k] = Ev("frame", f, e, "")

\* The compositor finished Frame f with Failed: it sent one of Ready and
\* Failed, and no Ready event of f was handled or is on its way.
SentFailed(f) == f \in sent.fin /\ frames[f].ready = 0 /\ ~Pending(f, "ready")

\* C13: the handler of a Frame event that is neither BufferDone nor Ready
\* changes no Session field and issues no request; while the run has a
\* single Frame and that Frame was sent Failed and not Ready, running is
\* true and the loop has not exited.
C13_OtherFrameEventsInert ==
    /\ [][(Handling("frame") /\ Head(batch).e \notin {"buffer_done", "ready"}) =>
            /\ UNCHANGED << running, mmap, buffer, screencopy_man >>
            /\ pc' \in {"dispatch", "loop"}
            /\ Len(frames') = Len(frames)
            /\ \A f \in Frames :
                  /\ frames'[f].copies = frames[f].copies
                  /\ frames'[f].destroys = frames[f].destroys
          ]_vars
    /\ []((Len(frames) = 1 /\ SentFailed(1)) => (running = TRUE /\ pc # "exited"))

C13_Witness ==
    /\ Len(frames) = 1
    /\ SentFailed(1)
    /\ ~Pending(1, "failed")
    /\ frames[1].copies # << >>
    /\ pc = "read"
    /\ running = TRUE

\* C14, as claimed: in every run save_image is called at most once, at most
\* one image is written, and no Ready handler reaches its save_image call
\* having found running already false.
C14_Original ==
    /\ saves <= 1
    /\ emitted <= 1
    /\ pc = "ready_flag" => running = TRUE

\* A copy request on Frame f is issued and not answered by a handled Ready.
CopyInFlight(f) == frames[f].copies # << >> /\ frames[f].ready = 0

\* The compositor holds a copy request of Frame f into the buffer of the
\* stored mapping's file and has sent neither Ready nor Failed for it.
CompositorWriting(f) ==
    /\ f \in srv.copied
    /\ f \notin sent.fin
    /\ \E k \in 1..Len(frames[f].copies) : frames[f].copies[k] = mmap.file

\* C15, as claimed: when the Ready handler reads the mapped region in
\* save_image, no Frame has a copy into that region in flight, so the read
\* overlaps no write of the compositor.
C15_Original ==
    (pc = "ready_save" /\ mmap # NoMap) =>
        \A f \in Frames : ~(CopyInFlight(f) /\ CompositorWriting(f))

\* C16: running is tested only at the head of the loop, between dispatch
\* calls. Once a Ready handler has set it to false, every step is the rest of
\* that handler, the handler of the next event of the same batch, or the
\* test that exits: no batch is read any more, the loop exits only from its
\* test, and when it has exited every event of the batch was handled.
C16_FlagTestedBetweenDispatches ==
    /\ [](running = FALSE => pc \in {"ready_save", "ready_flag", "dispatch", "loop", "exited"})
    /\ [](pc = "exited" => (batch = << >> /\ running = FALSE))
    /\ [][running = FALSE =>
            /\ batch' = batch \/ (batch # << >> /\ batch' = Tail(batch))
            /\ pc = "loop" => pc' = "exited"
            /\ (pc = "dispatch" /\ batch # << >>) =>
                  \/ batch' = Tail(batch) /\ pc' \in {"dispatch", "loop"}
                  \/ batch' = batch /\ pc' = "ready_flag"
          ]_vars
    /\ [][pc' = "exited" => (pc = "loop" /\ running = FALSE)]_vars

C16_Witness ==
    /\ running = FALSE
    /\ pc = "dispatch"
    /\ batch # << >>
    /\ Head(batch).k = "frame" /\ Head(batch).e = "buffer_done"
    /\ buffer # None

\* C17, as claimed: the manager is bound at most once, so the stored proxy
\* is the first one bound, and every capture_output request of the run went
\* to that proxy.
C17_Original ==
    /\ nManagers <= 1
    /\ screencopy_man \in {None, 1}
    /\ \A f \in Frames : frames[f].man = 1

\* C18, as claimed: at most one pool, mapping and buffer are created in a
\* run; between handlers the buffer is stored exactly when the mapping is,
\* and it is the buffer of the mapping's file; while a copy into a buffer is
\* in flight, the stored mapping is the one of that buffer's file.
C18_Original ==
    /\ Len(pools) <= 1
    /\ pc \in {"dispatch", "loop", "read", "exited"} =>
          /\ buffer # None <=> mmap # NoMap
          /\ mmap # NoMap => buffer = mmap.file
    /\ \A f \in Frames :
          CopyInFlight(f) =>
              \A k \in 1..Len(frames[f].copies) : frames[f].copies[k] = mmap.file

\* C19: as long as the compositor has sent no Ready before it saw a copy
\* request of that Frame, a mapping is stored whenever a Ready handler runs,
\* every save_image call has written an image, and when the loop has exited
\* running is false and an image was written.
C19_ExitImpliesImageWritten ==
    sent.early = {} =>
        /\ pc \in {"ready_flag", "ready_save"} => mmap # NoMap
        /\ (Handling("frame") /\ Head(batch).e = "ready") => mmap # NoMap
        /\ saves = emitted
        /\ pc = "exited" => (running = FALSE /\ emitted >= 1)

C19_Witness ==
    /\ sent.early = {}
    /\ pc = "exited"
    /\ running = FALSE
    /\ saves = 1
    /\ emitted = 1

====
